---- MODULE Spec2Model ----
(***************************************************************************)
(* Leaderboard landing page: LandingPage holds the period state and hands  *)
(* the record of that period to LeaderboardCard, which renders the tabs,   *)
(* one LeaderboardItem per player (styled by rank variant), a divider, the *)
(* current-user banner and the footer.  fetchLeaderboard is the mock data  *)
(* accessor of the service layer.                                          *)
(*                                                                         *)
(* A Tailwind class string is modelled as the set of its class tokens.     *)
(***************************************************************************)
EXTENDS Integers, Sequences, FiniteSets, TLC

VARIABLES
    mockLeaderboardData, \* the in-memory mapping period -> LeaderboardData
    period,              \* LandingPage's useState value
    view,                \* what LandingPage last rendered (the LeaderboardCard tree)
    clicked,             \* the tab button clicked last ("none" before any click)
    lastLog,             \* the last line written by console.log (<<>> before any)
    calls,               \* the fetchLeaderboard calls made so far
    innerWidth,          \* window.innerWidth
    hooks                \* the component instances that call useIsMobile

vars == <<mockLeaderboardData, period, view, clicked, lastLog, calls, innerWidth, hooks>>
pageVars == <<mockLeaderboardData, period, view, clicked, lastLog, calls>>
hookVars == <<innerWidth, hooks>>

----------------------------------------------------------------------------
(* Bounds *)

MaxRank == 5     \* ranks of the players of an arbitrary list are 1..MaxRank
MaxLen == 4      \* an arbitrary players list has at most MaxLen players
MaxCalls == 2    \* at most MaxCalls calls of fetchLeaderboard
NumHooks == 2    \* component instances that use useIsMobile

----------------------------------------------------------------------------
(* Types *)

Periods == {"week", "alltime"}
Tabs == {"This Week", "All Time"}

Names == <<"Felix", "Luna", "Kai", "Mira", "Zed", "Ada", "Bo", "Cy">>
TrendCycle == <<"up", "down", "neutral">>

Player(id, rank, name, score, trend, trendValue) ==
    [id |-> id, rank |-> rank, name |-> name, score |-> score,
     trend |-> trend, trendValue |-> trendValue]

LeaderboardData(p, players, currentUser) ==
    [period |-> p, players |-> players, currentUser |-> currentUser]

----------------------------------------------------------------------------
(* src/data/mockLeaderboard.ts: five players per period and the guest user *)

GuestUser == Player("guest", 42, "Guest User", 2340, "up", 45)

WeekPlayers ==
    << Player("1", 1, "Felix", 4250, "up", 120),
       Player("2", 2, "Luna", 3980, "up", 85),
       Player("3", 3, "Kai", 3720, "down", 12),
       Player("4", 4, "Mira", 3400, "neutral", 0),
       Player("5", 5, "Zed", 3150, "up", 30) >>

AllTimePlayers ==
    << Player("2", 1, "Luna", 98200, "up", 4),
       Player("1", 2, "Felix", 97150, "down", 2),
       Player("4", 3, "Mira", 90400, "up", 7),
       Player("3", 4, "Kai", 88300, "neutral", 0),
       Player("5", 5, "Zed", 80100, "down", 3) >>

MockData ==
    [p \in Periods |->
        IF p = "week" THEN LeaderboardData("week", WeekPlayers, GuestUser)
                      ELSE LeaderboardData("alltime", AllTimePlayers, GuestUser)]

----------------------------------------------------------------------------
(* src/lib/utils.ts: cn merges class lists; no two of the lists merged here *)
(* hold conflicting utilities, so the merge is their union.                 *)

cn(a, b) == a \cup b

----------------------------------------------------------------------------
(* LeaderboardTabs *)

ActiveTab == {"bg-white", "text-stone-900", "shadow-sm", "border", "border-stone-200"}
InactiveTab == {"text-stone-500", "hover:text-stone-700"}
TabBase == {"px-4", "py-2", "rounded-lg", "text-sm", "font-medium", "transition-all", "duration-200"}

\* the period a tab button passes to onPeriodChange
tabOnClick(tab) == IF tab = "This Week" THEN "week" ELSE "alltime"

tabClassNameCopied(tab, activePeriod) ==
    cn(TabBase, IF activePeriod = "week" THEN ActiveTab ELSE InactiveTab)

tabClassName(tab, activePeriod) ==
    IF tab = "This Week"
    THEN cn(TabBase, IF activePeriod = "week" THEN ActiveTab ELSE InactiveTab)
    ELSE cn(TabBase, IF activePeriod = "alltime" THEN ActiveTab ELSE InactiveTab)

LeaderboardTabs(activePeriod) ==
    [tab \in Tabs |-> tabClassName(tab, activePeriod)]

----------------------------------------------------------------------------
(* LeaderboardItem: the style helpers *)

BadgeRing == {"w-10", "h-10", "border-2", "border-white", "shadow-sm"}
YellowBadge == {"bg-yellow-100", "text-yellow-700"}
StoneBadge == {"bg-stone-100", "text-stone-600"}
OrangeBadge == {"bg-orange-100", "text-orange-800"}
PlainBadge == {"text-stone-400", "w-10", "h-10"}

getRankBadgeStylesSwapped(variant, rank) ==
    CASE variant = "top1" -> YellowBadge \cup BadgeRing
      [] variant = "top3" ->
            IF rank = 3 THEN StoneBadge \cup BadgeRing
                        ELSE OrangeBadge \cup BadgeRing
      [] variant = "default" -> PlainBadge

getRankBadgeStylesByRank(variant, rank) ==
    CASE variant = "top1" -> YellowBadge \cup BadgeRing
      [] variant = "top3" ->
            IF rank = 2 THEN StoneBadge \cup BadgeRing
                        ELSE OrangeBadge \cup BadgeRing
      [] variant = "default" ->
            IF rank = 4 THEN StoneBadge \cup {"w-10", "h-10"} ELSE PlainBadge

getRankBadgeStyles(variant, rank) ==
    CASE variant = "top1" -> YellowBadge \cup BadgeRing
      [] variant = "top3" ->
            IF rank = 2 THEN StoneBadge \cup BadgeRing
                        ELSE OrangeBadge \cup BadgeRing
      [] variant = "default" -> PlainBadge

getTrendIcon(trend) ==
    CASE trend = "up" -> [icon |-> "TrendingUp", className |-> cn({"w-3", "h-3"}, {"text-green-600"})]
      [] trend = "down" -> [icon |-> "TrendingDown", className |-> cn({"w-3", "h-3"}, {"text-red-500"})]
      [] trend = "neutral" -> [icon |-> "Minus", className |-> cn({"w-3", "h-3"}, {"text-stone-400"})]

getTrendBadgeStylesAllGreen(trend) ==
    CASE trend = "up" -> {"bg-green-50", "text-green-600"}
      [] trend = "down" -> {"bg-green-50", "text-green-600"}
      [] trend = "neutral" -> {"text-stone-400"}

getTrendBadgeStyles(trend) ==
    CASE trend = "up" -> {"bg-green-50", "text-green-600"}
      [] trend = "down" -> {"bg-red-50", "text-red-500"}
      [] trend = "neutral" -> {"text-stone-400"}

getHoverStyles(variant, rank) ==
    CASE variant = "top1" -> {"hover:bg-yellow-50/50", "hover:border-yellow-100", "hover-bounce"}
      [] variant = "top3" ->
            IF rank = 2 THEN {"hover:bg-stone-50", "hover:border-stone-200", "hover-bounce"}
                        ELSE {"hover:bg-orange-50/50", "hover:border-orange-100", "hover-bounce"}
      [] variant = "default" -> {"hover:bg-stone-50", "hover:border-stone-200"}

getLeftAccentColor(variant) ==
    IF variant = "top1"
    THEN {"left-0", "top-0", "bottom-0", "w-1", "bg-yellow-400", "rounded-l-2xl"}
    ELSE {}

ItemBase == {"group", "relative", "flex", "items-center", "gap-4", "p-3", "rounded-2xl",
             "border", "border-transparent", "transition-all", "duration-200", "cursor-pointer"}
AccentBase == {"absolute", "opacity-0", "group-hover:opacity-100", "transition-opacity"}
BadgeBase == {"flex-shrink-0", "flex", "items-center", "justify-center", "rounded-full",
              "font-semibold", "text-lg"}
AvatarBase == {"w-12", "h-12", "rounded-full", "bg-stone-100", "border", "border-stone-100"}
AvatarGray == {"grayscale", "opacity-80", "group-hover:grayscale-0",
               "group-hover:opacity-100", "transition-all"}
TrendBase == {"text-xs", "font-medium", "flex", "items-center", "gap-0.5", "px-1.5", "rounded-md"}

\* an element that is not rendered (the JSX expression `cond && <div/>` with cond false)
NotRendered == [rendered |-> FALSE, className |-> {}]
Rendered(classes) == [rendered |-> TRUE, className |-> classes]

avatarClassNameTop1Only(variant) ==
    cn(AvatarBase, IF variant # "top1" THEN AvatarGray ELSE {})

\* the className of the avatar <img>
avatarClassName(variant) ==
    cn(AvatarBase, IF variant # "top1" /\ variant # "top3" THEN AvatarGray ELSE {})

\* LeaderboardItemComponent: the element tree of one item
LeaderboardItem(player, variant) ==
    [kind |-> "item",
     key |-> player.id,
     player |-> player,
     variant |-> variant,
     className |-> cn(ItemBase, getHoverStyles(variant, player.rank)),
     hover |-> getHoverStyles(variant, player.rank),
     accent |-> IF variant = "top1"
                THEN Rendered(cn(AccentBase, getLeftAccentColor(variant)))
                ELSE NotRendered,
     accentColor |-> getLeftAccentColor(variant),
     badge |-> cn(BadgeBase, getRankBadgeStyles(variant, player.rank)),
     badgeText |-> player.rank,
     avatar |-> avatarClassName(variant),
     crown |-> (variant = "top1"),
     trendBadge |-> cn(TrendBase, getTrendBadgeStyles(player.trend)),
     trendIcon |-> getTrendIcon(player.trend)]

----------------------------------------------------------------------------
(* LeaderboardCard *)

getVariantOffByOne(rank) ==
    IF rank = 1 THEN "top1"
    ELSE IF rank < 3 THEN "top3"
    ELSE "default"

getVariant(rank) ==
    IF rank = 1 THEN "top1"
    ELSE IF rank <= 3 THEN "top3"
    ELSE "default"

Divider == [kind |-> "divider", className |-> {"h-px", "bg-stone-100", "mx-4", "my-1"}]

FragmentByPosition(players, i) ==
    <<LeaderboardItem(players[i], getVariant(i))>>
    \o (IF i - 1 = 2 /\ Len(players) > 3 THEN <<Divider>> ELSE <<>>)

\* players.map((player, index) => ...): the fragment of the player at
\* 1-based position i (index = i - 1): its item, then the divider when
\* index === 2 && players.length > 3
Fragment(players, i) ==
    <<LeaderboardItem(players[i], getVariant(players[i].rank))>>
    \o (IF i - 1 = 2 /\ Len(players) > 3 THEN <<Divider>> ELSE <<>>)

RECURSIVE Fragments(_, _)
Fragments(players, i) ==
    IF i > Len(players) THEN <<>>
    ELSE Fragment(players, i) \o Fragments(players, i + 1)

CurrentUserBanner(player) ==
    [rank |-> player.rank, name |-> player.name, score |-> player.score]

LeaderboardCard(players, currentUser, activePeriod) ==
    [players |-> players,
     currentUser |-> currentUser,
     activePeriod |-> activePeriod,
     tabs |-> LeaderboardTabs(activePeriod),
     list |-> Fragments(players, 1),
     banner |-> CurrentUserBanner(currentUser)]

----------------------------------------------------------------------------
(* LandingPage *)

LandingPageStale(data, p) ==
    LeaderboardCard(data["week"].players, data["week"].currentUser, p)

\* the render: currentData = mockLeaderboardData[period], handed to the card
LandingPage(data, p) ==
    LeaderboardCard(data[p].players, data[p].currentUser, p)

----------------------------------------------------------------------------
(* The window and the instances of useIsMobile *)

MOBILE_BREAKPOINT == 768

Widths == {320, MOBILE_BREAKPOINT - 1, MOBILE_BREAKPOINT, 1024}
Hooks == 1..NumHooks

\* an instance that has not rendered yet
NewHook == [phase |-> "unused", isMobile |-> "undefined", result |-> FALSE,
            matches |-> FALSE, listeners |-> 0, last |-> "none"]

\* no component uses the hook; a desktop window
NoHooks ==
    /\ innerWidth = 1024
    /\ hooks = [h \in Hooks |-> NewHook]

----------------------------------------------------------------------------
(* State after construction *)

\* the page as mounted: useState("week"), first render, nothing clicked,
\* nothing logged, no call of the service yet
Mounted(data) ==
    /\ mockLeaderboardData = data
    /\ period = "week"
    /\ view = LandingPage(data, "week")
    /\ clicked = "none"
    /\ lastLog = <<>>
    /\ calls = <<>>

Init == Mounted(MockData) /\ NoHooks

\* any players list of at most MaxLen players with ranks in 1..MaxRank, in
\* any order and with repeats; the player at position i has id and name i
Ranks == 1..MaxRank
RankLists == UNION {[1..n -> Ranks] : n \in 0..MaxLen}
PlayersOf(ranks) ==
    [i \in 1..Len(ranks) |->
        Player(Names[i], ranks[i], Names[i], 1000 - i,
               TrendCycle[((i - 1) % 3) + 1], i)]

\* the page mounted over a week record that holds any such list
InitAny ==
    \E ranks \in RankLists :
        Mounted([MockData EXCEPT !["week"].players = PlayersOf(ranks)]) /\ NoHooks

----------------------------------------------------------------------------
(* LandingPage / LeaderboardCard event handlers *)

setPeriodToggle(prev, p) == IF prev = "week" THEN "alltime" ELSE "week"

\* the useState setter: the next state is the value passed
setPeriod(prev, p) == p

Reverse(seq) == [i \in 1..Len(seq) |-> seq[Len(seq) + 1 - i]]

onPeriodChangeReversing(p) ==
    /\ period' = setPeriod(period, p)
    /\ mockLeaderboardData' =
          [mockLeaderboardData EXCEPT ![period'].players = Reverse(@)]
    /\ view' = LandingPage(mockLeaderboardData', period')
    /\ UNCHANGED <<lastLog, calls>>
    /\ UNCHANGED hookVars

\* onPeriodChange={setPeriod}: the state changes and the page renders again
onPeriodChange(p) ==
    /\ period' = setPeriod(period, p)
    /\ view' = LandingPage(mockLeaderboardData, period')
    /\ UNCHANGED <<mockLeaderboardData, lastLog, calls>>
    /\ UNCHANGED hookVars

\* a click on one of the two tab buttons
ClickTab(tab) ==
    /\ clicked' = tab
    /\ onPeriodChange(tabOnClick(tab))

\* onClick of the i-th element of the rendered list, a LeaderboardItem
ClickItem(i) ==
    /\ i \in DOMAIN view.list
    /\ view.list[i].kind = "item"
    /\ lastLog' = <<"Player:", view.list[i].player.name>>
    /\ UNCHANGED <<mockLeaderboardData, period, view, clicked, calls>>
    /\ UNCHANGED hookVars

ClickBanner ==
    /\ lastLog' = <<"View profile">>
    /\ UNCHANGED <<mockLeaderboardData, period, view, clicked, calls>>
    /\ UNCHANGED hookVars

ClickFooter ==
    /\ lastLog' = <<"View full leaderboard">>
    /\ UNCHANGED <<mockLeaderboardData, period, view, clicked, calls>>
    /\ UNCHANGED hookVars

ClickLogin ==
    /\ lastLog' = <<"Login clicked">>
    /\ UNCHANGED <<mockLeaderboardData, period, view, clicked, calls>>
    /\ UNCHANGED hookVars

----------------------------------------------------------------------------
(* fetchLeaderboard: a call registers the delay timer and awaits it; the   *)
(* timer fires; the awaiting function resumes and returns the record.      *)

NoResult == [period |-> "none", players |-> <<>>, currentUser |-> GuestUser]

fetchLeaderboardCall(p) ==
    /\ Len(calls) < MaxCalls
    /\ calls' = Append(calls, [period |-> p, timer |-> "pending",
                               promise |-> "pending", value |-> NoResult])
    /\ UNCHANGED <<mockLeaderboardData, period, view, clicked, lastLog>>
    /\ UNCHANGED hookVars

\* setTimeout(resolve, 300) fires
TimerFire(c) ==
    /\ c \in DOMAIN calls
    /\ calls[c].timer = "pending"
    /\ calls' = [calls EXCEPT ![c].timer = "fired"]
    /\ UNCHANGED <<mockLeaderboardData, period, view, clicked, lastLog>>
    /\ UNCHANGED hookVars

fetchReturnWeek(data, p) == data["week"]

\* return mockLeaderboardData[period]
fetchReturn(data, p) == data[p]

ResumeShared(c) ==
    /\ c \in DOMAIN calls
    /\ calls[c].timer = "fired"
    /\ calls[c].promise = "pending"
    /\ calls' = [calls EXCEPT ![c].promise = "fulfilled",
                              ![c].value = fetchReturn(mockLeaderboardData,
                                                       calls[Len(calls)].period)]
    /\ UNCHANGED <<mockLeaderboardData, period, view, clicked, lastLog>>
    /\ UNCHANGED hookVars

\* the continuation after the await
Resume(c) ==
    /\ c \in DOMAIN calls
    /\ calls[c].timer = "fired"
    /\ calls[c].promise = "pending"
    /\ calls' = [calls EXCEPT ![c].promise = "fulfilled",
                              ![c].value = fetchReturn(mockLeaderboardData, calls[c].period)]
    /\ UNCHANGED <<mockLeaderboardData, period, view, clicked, lastLog>>
    /\ UNCHANGED hookVars

----------------------------------------------------------------------------
(* useIsMobile (hooks/use-mobile.ts) *)

\* window.matchMedia(`(max-width: ${MOBILE_BREAKPOINT - 1}px)`).matches
mqlMatches(w) == w <= MOBILE_BREAKPOINT - 1

isMobileWidthInclusive(w) == IF w <= MOBILE_BREAKPOINT THEN "true" ELSE "false"

\* the value passed to setIsMobile: window.innerWidth < MOBILE_BREAKPOINT
isMobileWidth(w) == IF w < MOBILE_BREAKPOINT THEN "true" ELSE "false"

\* return !!isMobile
useIsMobileReturn(isMobile) == isMobile = "true"

addEventListener(n) == n + 1

removeEventListenerOther(n) == n

\* removing the listener that was added takes it off the list
removeEventListener(n) == IF n > 0 THEN n - 1 ELSE 0

\* the first render: useState(undefined), the effect has not run
HookRender(h) ==
    /\ hooks[h].phase = "unused"
    /\ hooks' = [hooks EXCEPT ![h] =
          [@ EXCEPT !.phase = "rendered",
                    !.isMobile = "undefined",
                    !.result = useIsMobileReturn("undefined"),
                    !.last = "render"]]
    /\ UNCHANGED innerWidth
    /\ UNCHANGED pageVars

\* the body of the effect, then the render its setIsMobile causes
RunEffect(hook) ==
    [hook EXCEPT !.phase = "mounted",
                 !.matches = mqlMatches(innerWidth),
                 !.listeners = addEventListener(@),
                 !.isMobile = isMobileWidth(innerWidth),
                 !.result = useIsMobileReturn(isMobileWidth(innerWidth)),
                 !.last = "effect"]

\* the cleanup the effect returned
RunCleanup(hook) ==
    [hook EXCEPT !.listeners = removeEventListener(@), !.last = "cleanup"]

\* the mount effect
HookEffect(h) ==
    /\ hooks[h].phase = "rendered"
    /\ hooks' = [hooks EXCEPT ![h] = RunEffect(@)]
    /\ UNCHANGED innerWidth
    /\ UNCHANGED pageVars

\* React re-running the effect of a mounted instance: cleanup, then the effect
HookRemount(h) ==
    /\ hooks[h].phase = "mounted"
    /\ hooks' = [hooks EXCEPT ![h] = RunEffect(RunCleanup(@))]
    /\ UNCHANGED innerWidth
    /\ UNCHANGED pageVars

\* unmount: the cleanup runs and the instance is gone
HookUnmount(h) ==
    /\ hooks[h].phase = "mounted"
    /\ hooks' = [hooks EXCEPT ![h] = [RunCleanup(@) EXCEPT !.phase = "unmounted"]]
    /\ UNCHANGED innerWidth
    /\ UNCHANGED pageVars

\* the viewport is resized
Resize(w) ==
    /\ w # innerWidth
    /\ innerWidth' = w
    /\ UNCHANGED hooks
    /\ UNCHANGED pageVars

\* the media query of an instance changes its result: the change event runs
\* the instance's onChange listeners, and setIsMobile renders it again
MediaQueryChange(h) ==
    /\ hooks[h].listeners > 0
    /\ hooks[h].matches # mqlMatches(innerWidth)
    /\ hooks' = [hooks EXCEPT ![h] =
          [@ EXCEPT !.matches = mqlMatches(innerWidth),
                    !.isMobile = isMobileWidth(innerWidth),
                    !.result = useIsMobileReturn(isMobileWidth(innerWidth)),
                    !.last = "change"]]
    /\ UNCHANGED innerWidth
    /\ UNCHANGED pageVars

HookInit ==
    /\ Mounted(MockData)
    /\ innerWidth \in Widths
    /\ hooks = [h \in Hooks |-> NewHook]

HookNext ==
    \/ \E h \in Hooks : HookRender(h)
    \/ \E h \in Hooks : HookEffect(h)
    \/ \E h \in Hooks : HookRemount(h)
    \/ \E h \in Hooks : HookUnmount(h)
    \/ \E w \in Widths : Resize(w)
    \/ \E h \in Hooks : MediaQueryChange(h)

\* components using useIsMobile in a window of any width
HookSpec == HookInit /\ [][HookNext]_vars

----------------------------------------------------------------------------
(* Specifications *)

UINext ==
    \/ \E tab \in Tabs : ClickTab(tab)
    \/ \E i \in 1..(MaxLen + 2) : ClickItem(i)
    \/ ClickBanner
    \/ ClickFooter
    \/ ClickLogin

ServiceNext ==
    \/ \E p \in Periods : fetchLeaderboardCall(p)
    \/ \E c \in 1..MaxCalls : TimerFire(c)
    \/ \E c \in 1..MaxCalls : Resume(c)

Next == UINext \/ ServiceNext

\* the application over its mock data, with the service called from outside
Spec == Init /\ [][Next]_vars

\* the event loop runs every due timer and every resumable continuation
FairSpec ==
    /\ Spec
    /\ \A c \in 1..MaxCalls : WF_vars(TimerFire(c)) /\ WF_vars(Resume(c))

\* the card's own handlers: the tab buttons and the items of the list
CardNext ==
    \/ \E tab \in Tabs : ClickTab(tab)
    \/ \E i \in 1..(MaxLen + 2) : ClickItem(i)

\* the page over any players list
CardSpec == InitAny /\ [][CardNext]_vars

----------------------------------------------------------------------------
(* Properties *)

IsItem(e) == e.kind = "item"
ItemsOf(v) == SelectSeq(v.list, IsItem)
ItemAt(v) == {i \in DOMAIN v.list : v.list[i].kind = "item"}
DividerAt(v) == {i \in DOMAIN v.list : v.list[i].kind = "divider"}
FulfilledCalls == {c \in DOMAIN calls : calls[c].promise = "fulfilled"}

\* C1: in every state the players and the currentUser handed to
\* LeaderboardCard are those of the record stored for the current period,
\* the items shown are those players in order, and the tab shown active is
\* the tab of that period.
C1_ListBelongsToActiveTab ==
    /\ view.activePeriod = period
    /\ view.players = mockLeaderboardData[period].players
    /\ view.currentUser = mockLeaderboardData[period].currentUser
    /\ [i \in DOMAIN ItemsOf(view) |-> ItemsOf(view)[i].player]
         = mockLeaderboardData[period].players
    /\ \A tab \in Tabs :
         "bg-white" \in view.tabs[tab] => mockLeaderboardData[tabOnClick(tab)].players = view.players

C1_Witness ==
    /\ clicked = "All Time"
    /\ period = "alltime"
    /\ view.players = AllTimePlayers
    /\ view.players # mockLeaderboardData["week"].players

\* C2: period starts as "week", is always "week" or "alltime", and after a
\* click on a tab it is the period of the tab clicked last: "week" for
\* This Week, "alltime" for All Time.
C2_PeriodFollowsClick ==
    /\ period \in Periods
    /\ clicked = "none" => period = "week"
    /\ clicked = "This Week" => period = "week"
    /\ clicked = "All Time" => period = "alltime"

C2_Witness == clicked = "All Time" /\ period = "alltime" /\ lastLog # <<>>

\* C3: exactly one tab button carries the active styling (bg-white,
\* shadow-sm, border-stone-200); it is the button whose period is
\* activePeriod, and the other button carries the inactive styling.
C3_OneActiveTab ==
    LET active == {"bg-white", "shadow-sm", "border-stone-200"}
        inactive == {"text-stone-500", "hover:text-stone-700"}
    IN /\ Cardinality({tab \in Tabs : active \subseteq view.tabs[tab]}) = 1
       /\ \A tab \in Tabs :
            IF tabOnClick(tab) = view.activePeriod
            THEN active \subseteq view.tabs[tab] /\ view.tabs[tab] \cap inactive = {}
            ELSE inactive \subseteq view.tabs[tab] /\ view.tabs[tab] \cap active = {}

C3_Witness ==
    /\ view.activePeriod = "alltime"
    /\ "bg-white" \in view.tabs["All Time"]
    /\ "bg-white" \notin view.tabs["This Week"]

\* C4: every item's variant is top1 exactly when its player's rank is 1,
\* top3 exactly when the rank is 2 or 3, default exactly when it is 4 or more.
C4_VariantOfRank ==
    \A i \in ItemAt(view) :
        LET e == view.list[i] IN
        /\ e.variant = "top1" <=> e.player.rank = 1
        /\ e.variant = "top3" <=> e.player.rank \in {2, 3}
        /\ e.variant = "default" <=> e.player.rank >= 4

C4_Witness ==
    /\ clicked = "This Week" /\ period = "week"
    /\ \E i \in ItemAt(view) : view.list[i].player.rank = 1 /\ view.list[i].variant = "top1"
    /\ \E i \in ItemAt(view) : view.list[i].player.rank = 3 /\ view.list[i].variant = "top3"
    /\ \E i \in ItemAt(view) : view.list[i].player.rank = 5 /\ view.list[i].variant = "default"

C6_BadgeOfRank ==
    LET backgrounds == {"bg-yellow-100", "bg-stone-100", "bg-orange-100"} IN
    \A i \in ItemAt(view) :
        LET e == view.list[i] IN
        /\ {"bg-yellow-100", "text-yellow-700"} \subseteq e.badge <=> e.player.rank = 1
        /\ {"bg-stone-100", "text-stone-600"} \subseteq e.badge <=> e.player.rank = 2
        /\ {"bg-orange-100", "text-orange-800"} \subseteq e.badge <=> e.player.rank = 3
        /\ ("text-stone-400" \in e.badge /\ e.badge \cap backgrounds = {})
             <=> e.player.rank >= 4

C6_Witness ==
    /\ clicked = "This Week" /\ period = "week"
    /\ \E i \in ItemAt(view) : view.list[i].player.rank = 2 /\ "bg-stone-100" \in view.list[i].badge
    /\ \E i \in ItemAt(view) : view.list[i].player.rank = 3 /\ "bg-orange-100" \in view.list[i].badge
    /\ \E i \in ItemAt(view) : view.list[i].player.rank = 4 /\ "text-stone-400" \in view.list[i].badge

\* C7: whenever the list holds a player ranked beyond 3, there is a single
\* divider, directly after the item of a player of rank 3 and before every
\* item of rank 4 or more.
C7_DividerAfterRank3 ==
    (\E i \in ItemAt(view) : view.list[i].player.rank > 3) =>
        /\ Cardinality(DividerAt(view)) = 1
        /\ \A d \in DividerAt(view) :
             /\ d > 1
             /\ view.list[d - 1].kind = "item"
             /\ view.list[d - 1].player.rank = 3
             /\ \A j \in ItemAt(view) : view.list[j].player.rank >= 4 => j > d

\* C8: a call of fetchLeaderboard never rejects; it is fulfilled only after
\* its delay timer has fired, with the record stored for its period; and
\* every call is eventually fulfilled.
C8_FetchResolves ==
    /\ [](\A c \in DOMAIN calls :
            /\ calls[c].promise # "rejected"
            /\ calls[c].promise = "fulfilled" =>
                 /\ calls[c].timer = "fired"
                 /\ calls[c].value = mockLeaderboardData[calls[c].period]
                 /\ calls[c].value.period = calls[c].period)
    /\ \A c \in 1..MaxCalls :
         (c \in DOMAIN calls) ~> (c \in DOMAIN calls /\ calls[c].promise = "fulfilled")

C8_Witness ==
    \E c \in FulfilledCalls :
        /\ calls[c].period = "alltime"
        /\ calls[c].value.players = AllTimePlayers
        /\ calls[c].value # mockLeaderboardData["week"]

\* C9: the mapping from period to LeaderboardData is never mutated: in every
\* state the record of each period is its initial value.
C9_MockNeverMutated ==
    \A p \in Periods :
        /\ mockLeaderboardData[p] = MockData[p]
        /\ mockLeaderboardData[p].players = MockData[p].players
        /\ mockLeaderboardData[p].currentUser = MockData[p].currentUser

C9_Witness ==
    /\ clicked = "This Week"
    /\ lastLog = <<"Player:", "Zed">>
    /\ FulfilledCalls = 1..MaxCalls
    /\ mockLeaderboardData = MockData

\* C10: every item, whatever its variant, carries hover-bounce in the
\* classes returned by getHoverStyles.
C10_AllHoverBounce ==
    \A i \in ItemAt(view) :
        /\ "hover-bounce" \in view.list[i].hover
        /\ "hover-bounce" \in view.list[i].className

\* C11: an item of rank 1 has a yellow (bg-yellow-400) left accent bar, an
\* item of rank 2 or 3 an orange (bg-orange-400) one, and an item of rank 4
\* or more has none.
C11_AccentBars ==
    \A i \in ItemAt(view) :
        LET e == view.list[i] IN
        /\ e.player.rank = 1 => e.accent.rendered /\ "bg-yellow-400" \in e.accent.className
        /\ e.player.rank \in {2, 3} => e.accent.rendered /\ "bg-orange-400" \in e.accent.className
        /\ e.player.rank >= 4 => ~e.accent.rendered

\* C12: the avatar of an item carries grayscale and opacity-80 (lifted on
\* hover) exactly when the player's rank is 4 or more.
C12_GrayscaleFromRank4 ==
    \A i \in ItemAt(view) :
        LET e == view.list[i]
            gray == {"grayscale", "opacity-80"}
            lifted == {"group-hover:grayscale-0", "group-hover:opacity-100"}
        IN /\ gray \subseteq e.avatar <=> e.player.rank >= 4
           /\ e.player.rank >= 4 => lifted \subseteq e.avatar
           /\ e.player.rank \in {1, 2, 3} => e.avatar \cap gray = {}

C12_Witness ==
    /\ clicked = "This Week" /\ period = "week"
    /\ \E i \in ItemAt(view) : view.list[i].player.rank = 3 /\ "grayscale" \notin view.list[i].avatar
    /\ \E i \in ItemAt(view) : view.list[i].player.rank = 4 /\ "grayscale" \in view.list[i].avatar
    /\ \E i \in ItemAt(view) : view.list[i].player.rank = 5 /\ "grayscale" \in view.list[i].avatar

\* C13: the trend indicator of an item is TrendingUp in green-600 on green-50
\* for up, TrendingDown in red-500 on red-50 for down, Minus in stone-400 for
\* neutral, and the icon's colour is the badge's text colour.
C13_TrendIndicator ==
    LET colours == {"text-green-600", "text-red-500", "text-stone-400"} IN
    \A i \in ItemAt(view) :
        LET e == view.list[i] IN
        /\ e.player.trend = "up" =>
             /\ e.trendIcon.icon = "TrendingUp"
             /\ "text-green-600" \in e.trendIcon.className
             /\ {"text-green-600", "bg-green-50"} \subseteq e.trendBadge
        /\ e.player.trend = "down" =>
             /\ e.trendIcon.icon = "TrendingDown"
             /\ "text-red-500" \in e.trendIcon.className
             /\ {"text-red-500", "bg-red-50"} \subseteq e.trendBadge
        /\ e.player.trend = "neutral" =>
             /\ e.trendIcon.icon = "Minus"
             /\ "text-stone-400" \in e.trendIcon.className
             /\ "text-stone-400" \in e.trendBadge
        /\ e.trendIcon.className \cap colours = e.trendBadge \cap colours
        /\ Cardinality(e.trendBadge \cap colours) = 1

C13_Witness ==
    /\ clicked = "This Week" /\ period = "week"
    /\ \E i \in ItemAt(view) : view.list[i].player.trend = "up" /\ view.list[i].trendIcon.icon = "TrendingUp"
    /\ \E i \in ItemAt(view) : view.list[i].player.trend = "down" /\ view.list[i].trendIcon.icon = "TrendingDown"
    /\ \E i \in ItemAt(view) : view.list[i].player.trend = "neutral" /\ view.list[i].trendIcon.icon = "Minus"

\* C16: the card shows exactly one item per element of players, in the
\* array's order, nothing sorted, dropped or merged, and the variant of each
\* item is the one of its own player's rank, not of its position.
C16_OneItemPerPlayer ==
    LET items == ItemsOf(view) IN
    /\ Len(items) = Len(view.players)
    /\ \A i \in DOMAIN items :
         /\ items[i].player = view.players[i]
         /\ items[i].key = view.players[i].id
         /\ items[i].variant =
              (IF view.players[i].rank = 1 THEN "top1"
               ELSE IF view.players[i].rank \in {2, 3} THEN "top3"
               ELSE "default")

C16_Witness ==
    /\ clicked = "This Week" /\ period = "week"
    /\ Len(view.players) = 4
    /\ view.players[1].rank = 4 /\ view.players[2].rank = 1
    /\ view.players[3].rank = 1 /\ view.players[4].rank = 3
    /\ ItemsOf(view)[1].variant = "default"
    /\ ItemsOf(view)[2].variant = "top1"
    /\ ItemsOf(view)[3].variant = "top1"

\* C17: calls of fetchLeaderboard do not interfere: whatever the order of
\* the calls and of their timers, a fulfilled call holds the record of its
\* own period and of no other, a fulfilled call is never settled again, and
\* every call is eventually fulfilled.
C17_CallsIndependent ==
    /\ [](\A c \in FulfilledCalls :
            /\ calls[c].value.period = calls[c].period
            /\ calls[c].value.players = mockLeaderboardData[calls[c].period].players
            /\ \A q \in Periods \ {calls[c].period} :
                 calls[c].value # mockLeaderboardData[q])
    /\ [][\A c \in FulfilledCalls : c \in DOMAIN calls' /\ calls'[c] = calls[c]]_vars
    /\ \A c \in 1..MaxCalls :
         [](c \in DOMAIN calls => <>(c \in FulfilledCalls))

C17_Witness ==
    /\ Len(calls) >= 2
    /\ calls[1].period = "week" /\ calls[1].timer = "pending"
    /\ calls[2].period = "alltime" /\ calls[2].promise = "fulfilled"
    /\ calls[2].value.players = AllTimePlayers

\* C14: useIsMobile returns false before its mount effect has run; once the
\* effect has run, whenever the media query's last result is that of the
\* current width (after the effect and after every change event, whatever
\* the widths before), it returns true exactly when innerWidth is below 768.
C14_IsMobileTracksWidth ==
    \A h \in Hooks :
        LET k == hooks[h] IN
        /\ k.phase = "rendered" => k.result = FALSE
        /\ (k.phase = "mounted" /\ k.matches = (innerWidth <= 767)) =>
              k.result = (innerWidth < 768)

C14_Witness ==
    \E h, g \in Hooks :
        /\ hooks[h].phase = "mounted" /\ hooks[h].last = "change"
        /\ innerWidth = 767 /\ hooks[h].result = TRUE
        /\ hooks[g].phase = "rendered" /\ hooks[g].result = FALSE

\* C15: a mounted instance has exactly one change listener registered and
\* never more; unmounting removes it, and an unmounted instance has no
\* listener and has handled no change event since its cleanup.
C15_ListenerCleanedUp ==
    \A h \in Hooks :
        LET k == hooks[h] IN
        /\ k.listeners <= 1
        /\ k.phase = "mounted" => k.listeners = 1
        /\ k.phase = "unmounted" => k.listeners = 0 /\ k.last = "cleanup"

C15_Witness ==
    \E h, g \in Hooks :
        /\ hooks[h].phase = "unmounted" /\ hooks[h].listeners = 0
        /\ hooks[h].matches # (innerWidth <= 767)
        /\ hooks[h].result # (innerWidth < 768)
        /\ hooks[g].phase = "mounted" /\ hooks[g].last = "change"
        /\ hooks[g].result = (innerWidth < 768)

====
